---- MODULE Spec2Model ----
(***************************************************************************)
(* sklearn.kernel_approximation: RBFSampler, SkewedChi2Sampler and         *)
(* AdditiveChi2Sampler as a state machine over one estimator object.       *)
(*                                                                         *)
(* An estimator is the record of its attributes (DOMAIN self is the set    *)
(* of attributes the object has, so a missing random_weights_ is a missing *)
(* field).  An ndarray is [shape, data].  Floating point values are kept   *)
(* as expression trees (tuples headed by the name of the function that     *)
(* was applied), so two arrays are equal exactly when they were computed   *)
(* the same way from the same generator draws and inputs.                  *)
(***************************************************************************)
EXTENDS Integers, Sequences, FiniteSets, TLC

VARIABLES cls, init_args, self, fit_n_features, call, ret

vars == <<cls, init_args, self, fit_n_features, call, ret>>

(* ------------------------------ bounds -------------------------------- *)

MaxRows == 2
MaxCols == 2
MaxComponents == 2
MaxSteps == 4
GenMod == 4

NonPositive == {-1, 0}
Seeds == {0, 1}
Gammas == {1, 2}
Skewednesses == {1, 2}
None == "None"
Intervals == {"0.3", "0.8"}

(* ------------------------------ ndarray ------------------------------- *)

Array2(r, c, F(_, _)) ==
    [shape |-> <<r, c>>, data |-> [i \in 1..r |-> [j \in 1..c |-> F(i, j)]]]

Array1(n, F(_)) ==
    [shape |-> <<n>>, data |-> [j \in 1..n |-> F(j)]]

EmptyArray == [shape |-> <<0>>, data |-> <<>>]

\* (X < bound).any() and (X <= bound).any() on a 2-d array
any_less(X, bound) ==
    \E i \in 1..X.shape[1] : \E j \in 1..X.shape[2] : X.data[i][j] < bound

any_less_equal(X, bound) ==
    \E i \in 1..X.shape[1] : \E j \in 1..X.shape[2] : X.data[i][j] <= bound

\* a strictly positive r x c array in which neighbouring entries differ
positive_array(r, c) == Array2(r, c, LAMBDA i, j : 1 + ((i + j) % 2))

\* A with entry (p, q) set to b
with_entry(A, p, q, b) ==
    [A EXCEPT !.data[p][q] = b]

\* the 2-d inputs: strictly positive, or with one entry that is zero or negative
Inputs ==
    UNION {{positive_array(r, c)} \cup
           {with_entry(positive_array(r, c), p, q, b) :
                p \in 1..r, q \in 1..c, b \in NonPositive} :
           r \in 1..MaxRows, c \in 1..MaxCols}

\* the inputs of fit, which reads no entry of X: one array of each shape
FitInputs ==
    {positive_array(r, c) : r \in 1..MaxRows, c \in 1..MaxCols}

(* ------------------------- outcomes of a call ------------------------- *)

NoException == ""
AttributeError == "AttributeError: object has no attribute 'random_weights_'"
TypeError == "TypeError: unsupported operand type(s) for *"
NotAligned == "ValueError: matrices are not aligned"
SmallerThanZero == "ValueError: X may not contain entries smaller than zero."
StrictlyPositive == "ValueError: Entries of X must be strictly positive."
NeedInterval ==
    "ValueError: If sample_steps is not in [1, 2, 3], you need to provide sample_interval"

ReturnSelf(obj) ==
    [self |-> obj, raised |-> NoException, returned |-> "self", value |-> EmptyArray]

ReturnArray(obj, A) ==
    [self |-> obj, raised |-> NoException, returned |-> "ndarray", value |-> A]

Raise(obj, exc) ==
    [self |-> obj, raised |-> exc, returned |-> "nothing", value |-> EmptyArray]

\* self.name = val
SetAttr(obj, name, val) ==
    [a \in DOMAIN obj \cup {name} |-> IF a = name THEN val ELSE obj[a]]

HasAttr(obj, name) == name \in DOMAIN obj

(* ------------------- collaborators (outside src/) --------------------- *)

\* a generator is its position in a stream of period GenMod
RandomState(seed) == [kind |-> "RandomState", v |-> seed % GenMod]

check_random_state(seed) ==
    IF seed.kind = "int" THEN RandomState(seed.v) ELSE seed

\* n successive words of the generator, and the generator after them
random_sample(rs, n) ==
    [draws |-> [k \in 1..n |-> (rs.v + k - 1) % GenMod],
     rs |-> [rs EXCEPT !.v = (rs.v + n) % GenMod]]

\* rs.normal(size=(r, c)): filled in row-major order
normal(rs, r, c) ==
    LET s == random_sample(rs, r * c)
    IN  [array |-> Array2(r, c, LAMBDA i, j : <<"normal", s.draws[(i - 1) * c + j]>>),
         rs |-> s.rs]

\* rs.uniform(size=(r, c))
uniform2(rs, r, c) ==
    LET s == random_sample(rs, r * c)
    IN  [array |-> Array2(r, c, LAMBDA i, j : <<"uniform(0,1)", s.draws[(i - 1) * c + j]>>),
         rs |-> s.rs]

\* rs.uniform(0, 2 * np.pi, size=n)
uniform_2pi(rs, n) ==
    LET s == random_sample(rs, n)
    IN  [array |-> Array1(n, LAMBDA j : <<"uniform(0,2*pi)", s.draws[j]>>),
         rs |-> s.rs]

\* safe_sparse_dot(A, B): entry (i, j) is the sum over k of A[i][k] * B[k][j],
\* kept as the sequence of its terms
safe_sparse_dot(A, B) ==
    IF A.shape[2] # B.shape[1]
    THEN [raised |-> NotAligned, value |-> EmptyArray]
    ELSE [raised |-> NoException,
          value |-> Array2(A.shape[1], B.shape[2],
                       LAMBDA i, j : [k \in 1..A.shape[2] |->
                                          <<A.data[i][k], B.data[k][j]>>])]

\* np.sqrt(2.) / np.sqrt(n_components) * np.cos(projection + offset),
\* offset broadcast over the rows
cos_features(n_components, projection, offset) ==
    Array2(projection.shape[1], projection.shape[2],
           LAMBDA i, j : <<"sqrt(2/n)*cos", n_components,
                           projection.data[i][j], offset.data[j]>>)

(* ----------------------------- RBFSampler ----------------------------- *)

RBFSampler_init(gamma, n_components, random_state) ==
    [gamma |-> gamma, n_components |-> n_components, random_state |-> random_state]

\* a fit that samples only when the object holds no weights yet
RBFSampler_fit_keeps_weights(obj, X) ==
    LET s1 == SetAttr(obj, "random_state", check_random_state(obj.random_state))
    IN  IF HasAttr(obj, "random_weights_") THEN ReturnSelf(s1)
        ELSE LET n_features == X.shape[2]
                 n == normal(s1.random_state, n_features, s1.n_components)
                 w == Array2(n_features, s1.n_components,
                          LAMBDA i, j : <<"sqrt(gamma)*", s1.gamma, n.array.data[i][j]>>)
                 u == uniform_2pi(n.rs, s1.n_components)
                 s2 == SetAttr(SetAttr(s1, "random_state", u.rs), "random_weights_", w)
                 s3 == SetAttr(s2, "random_offset_", u.array)
             IN  ReturnSelf(s3)

RBFSampler_fit(obj, X) ==
    LET s1 == SetAttr(obj, "random_state", check_random_state(obj.random_state))
        n_features == X.shape[2]
        n == normal(s1.random_state, n_features, s1.n_components)
        w == Array2(n_features, s1.n_components,
                 LAMBDA i, j : <<"sqrt(gamma)*", s1.gamma, n.array.data[i][j]>>)
        u == uniform_2pi(n.rs, s1.n_components)
        \* the generator self.random_state refers to has been drawn from
        s2 == SetAttr(SetAttr(s1, "random_state", u.rs), "random_weights_", w)
        s3 == SetAttr(s2, "random_offset_", u.array)
    IN  ReturnSelf(s3)

RBFSampler_transform(obj, X) ==
    IF ~HasAttr(obj, "random_weights_") THEN Raise(obj, AttributeError)
    ELSE LET projection == safe_sparse_dot(X, obj.random_weights_)
         IN  IF projection.raised # NoException THEN Raise(obj, projection.raised)
             ELSE ReturnArray(obj, cos_features(obj.n_components, projection.value,
                                                obj.random_offset_))

(* -------------------------- SkewedChi2Sampler ------------------------- *)

SkewedChi2Sampler_init(skewedness, n_components, random_state) ==
    [skewedness |-> skewedness, n_components |-> n_components,
     random_state |-> random_state]

SkewedChi2Sampler_fit(obj, X) ==
    LET s1 == SetAttr(obj, "random_state", check_random_state(obj.random_state))
        n_features == X.shape[2]
        un == uniform2(s1.random_state, n_features, s1.n_components)
        \* transform by inverse CDF of sech
        w == Array2(n_features, s1.n_components,
                 LAMBDA i, j : <<"1/pi*log(tan(pi/2*", un.array.data[i][j]>>)
        u == uniform_2pi(un.rs, s1.n_components)
        \* the generator self.random_state refers to has been drawn from
        s2 == SetAttr(SetAttr(s1, "random_state", u.rs), "random_weights_", w)
        s3 == SetAttr(s2, "random_offset_", u.array)
    IN  ReturnSelf(s3)

\* a transform that rejects zero entries too
SkewedChi2Sampler_transform_rejects_zero(obj, X) ==
    IF any_less_equal(X, 0) THEN Raise(obj, SmallerThanZero)
    ELSE IF ~HasAttr(obj, "random_weights_") THEN Raise(obj, AttributeError)
    ELSE LET logX == Array2(X.shape[1], X.shape[2],
                        LAMBDA i, j : <<"log", X.data[i][j] + obj.skewedness>>)
             projection == safe_sparse_dot(logX, obj.random_weights_)
         IN  IF projection.raised # NoException THEN Raise(obj, projection.raised)
             ELSE ReturnArray(obj, cos_features(obj.n_components, projection.value,
                                                obj.random_offset_))

\* a transform that looks for the fitted attributes before it scans X
SkewedChi2Sampler_transform_fitted_first(obj, X) ==
    IF ~HasAttr(obj, "random_weights_") THEN Raise(obj, AttributeError)
    ELSE IF any_less(X, 0) THEN Raise(obj, SmallerThanZero)
    ELSE LET logX == Array2(X.shape[1], X.shape[2],
                        LAMBDA i, j : <<"log", X.data[i][j] + obj.skewedness>>)
             projection == safe_sparse_dot(logX, obj.random_weights_)
         IN  IF projection.raised # NoException THEN Raise(obj, projection.raised)
             ELSE ReturnArray(obj, cos_features(obj.n_components, projection.value,
                                                obj.random_offset_))

SkewedChi2Sampler_transform(obj, X) ==
    IF any_less(X, 0) THEN Raise(obj, SmallerThanZero)
    ELSE IF ~HasAttr(obj, "random_weights_") THEN Raise(obj, AttributeError)
    ELSE LET logX == Array2(X.shape[1], X.shape[2],
                        LAMBDA i, j : <<"log", X.data[i][j] + obj.skewedness>>)
             projection == safe_sparse_dot(logX, obj.random_weights_)
         IN  IF projection.raised # NoException THEN Raise(obj, projection.raised)
             ELSE ReturnArray(obj, cos_features(obj.n_components, projection.value,
                                                obj.random_offset_))

(* ------------------------- AdditiveChi2Sampler ------------------------ *)

AdditiveChi2Sampler_init(sample_steps, sample_interval) ==
    [sample_steps |-> sample_steps, sample_interval |-> sample_interval]

\* a fit whose else branch does not raise
AdditiveChi2Sampler_fit_no_raise(obj, X) ==
    IF obj.sample_interval = None
    THEN IF obj.sample_steps = 1 THEN ReturnSelf(SetAttr(obj, "sample_interval", "0.8"))
         ELSE IF obj.sample_steps = 2 THEN ReturnSelf(SetAttr(obj, "sample_interval", "0.5"))
         ELSE IF obj.sample_steps = 3 THEN ReturnSelf(SetAttr(obj, "sample_interval", "0.4"))
         ELSE ReturnSelf(obj)
    ELSE ReturnSelf(obj)

\* a fit that derives the interval whether or not one is set
AdditiveChi2Sampler_fit_rederives(obj, X) ==
    IF obj.sample_steps = 1 THEN ReturnSelf(SetAttr(obj, "sample_interval", "0.8"))
    ELSE IF obj.sample_steps = 2 THEN ReturnSelf(SetAttr(obj, "sample_interval", "0.5"))
    ELSE IF obj.sample_steps = 3 THEN ReturnSelf(SetAttr(obj, "sample_interval", "0.4"))
    ELSE IF obj.sample_interval = None THEN Raise(obj, NeedInterval)
    ELSE ReturnSelf(obj)

AdditiveChi2Sampler_fit(obj, X) ==
    IF obj.sample_interval = None
    THEN IF obj.sample_steps = 1 THEN ReturnSelf(SetAttr(obj, "sample_interval", "0.8"))
         ELSE IF obj.sample_steps = 2 THEN ReturnSelf(SetAttr(obj, "sample_interval", "0.5"))
         ELSE IF obj.sample_steps = 3 THEN ReturnSelf(SetAttr(obj, "sample_interval", "0.4"))
         ELSE Raise(obj, NeedInterval)
    ELSE ReturnSelf(obj)

\* np.sqrt(X * self.sample_interval / np.cosh(0))
zeroth_component(obj, X) ==
    Array2(X.shape[1], X.shape[2],
           LAMBDA i, j : <<"sqrt(x*interval/cosh(0))", X.data[i][j], obj.sample_interval>>)

\* factor * np.cos(j * log_step), factor = sqrt(step / cosh(pi * j * interval))
cos_component(obj, X, step) ==
    Array2(X.shape[1], X.shape[2],
           LAMBDA i, j : <<"factor*cos(j*log_step)", step, X.data[i][j],
                           obj.sample_interval>>)

\* factor * np.sin(j * log_step)
sin_component(obj, X, step) ==
    Array2(X.shape[1], X.shape[2],
           LAMBDA i, j : <<"factor*sin(j*log_step)", step, X.data[i][j],
                           obj.sample_interval>>)

\* a loop that runs to sample_steps inclusive
RECURSIVE append_steps_inclusive(_, _, _, _)
append_steps_inclusive(X_new, step, obj, X) ==
    IF step > obj.sample_steps THEN X_new
    ELSE append_steps_inclusive(Append(Append(X_new, cos_component(obj, X, step)),
                                       sin_component(obj, X, step)),
                                step + 1, obj, X)

\* a loop that appends the sine before the cosine
RECURSIVE append_steps_sin_first(_, _, _, _)
append_steps_sin_first(X_new, step, obj, X) ==
    IF step >= obj.sample_steps THEN X_new
    ELSE append_steps_sin_first(Append(Append(X_new, sin_component(obj, X, step)),
                                       cos_component(obj, X, step)),
                                step + 1, obj, X)

\* for j in xrange(1, self.sample_steps): two appends per step
RECURSIVE append_steps(_, _, _, _)
append_steps(X_new, step, obj, X) ==
    IF step >= obj.sample_steps THEN X_new
    ELSE append_steps(Append(Append(X_new, cos_component(obj, X, step)),
                             sin_component(obj, X, step)),
                      step + 1, obj, X)

RECURSIVE hstack_row(_, _)
hstack_row(blocks, i) ==
    IF blocks = <<>> THEN <<>>
    ELSE Head(blocks).data[i] \o hstack_row(Tail(blocks), i)

\* np.hstack on a list of 2-d arrays with the same number of rows
hstack(blocks) ==
    LET rows == Head(blocks).shape[1]
        data == [i \in 1..rows |-> hstack_row(blocks, i)]
    IN  [shape |-> <<rows, Len(data[1])>>, data |-> data]

\* a transform that rejects negative entries only
AdditiveChi2Sampler_transform_accepts_zero(obj, X) ==
    IF any_less(X, 0) THEN Raise(obj, StrictlyPositive)
    ELSE IF obj.sample_interval = None THEN Raise(obj, TypeError)
    ELSE ReturnArray(obj, hstack(append_steps(<<zeroth_component(obj, X)>>, 1, obj, X)))

AdditiveChi2Sampler_transform(obj, X) ==
    IF any_less_equal(X, 0) THEN Raise(obj, StrictlyPositive)
    ELSE IF obj.sample_interval = None THEN Raise(obj, TypeError)
    ELSE ReturnArray(obj, hstack(append_steps(<<zeroth_component(obj, X)>>, 1, obj, X)))

(* ------------------------------ the machine --------------------------- *)

RandomStateArgs ==
    {[kind |-> "int", v |-> s] : s \in Seeds} \cup {RandomState(0)}

Constructed ==
    [RBFSampler |->
        {RBFSampler_init(g, n, rs) :
            g \in Gammas, n \in 1..MaxComponents, rs \in RandomStateArgs},
     SkewedChi2Sampler |->
        {SkewedChi2Sampler_init(sk, n, rs) :
            sk \in Skewednesses, n \in 1..MaxComponents, rs \in RandomStateArgs},
     AdditiveChi2Sampler |->
        {AdditiveChi2Sampler_init(st, si) :
            st \in 0..MaxSteps, si \in Intervals \cup {None}}]

Classes == DOMAIN Constructed

MonteCarlo == {"RBFSampler", "SkewedChi2Sampler"}

Init ==
    /\ cls \in Classes
    /\ self \in Constructed[cls]
    /\ init_args = self
    /\ fit_n_features = 0
    /\ call = [op |-> "__init__", X |-> EmptyArray]
    /\ ret = [raised |-> NoException, returned |-> "self", value |-> EmptyArray]

\* the call op(X) ended as r
Called(op, X, r) ==
    /\ self' = r.self
    /\ call' = [op |-> op, X |-> X]
    /\ ret' = [raised |-> r.raised, returned |-> r.returned, value |-> r.value]
    /\ fit_n_features' = IF op = "fit" /\ r.raised = NoException /\ cls \in MonteCarlo
                         THEN X.shape[2] ELSE fit_n_features
    /\ UNCHANGED <<cls, init_args>>

RBFSamplerFit ==
    /\ cls = "RBFSampler"
    /\ \E X \in FitInputs : Called("fit", X, RBFSampler_fit(self, X))

RBFSamplerTransform ==
    /\ cls = "RBFSampler"
    /\ \E X \in Inputs : Called("transform", X, RBFSampler_transform(self, X))

SkewedChi2SamplerFit ==
    /\ cls = "SkewedChi2Sampler"
    /\ \E X \in FitInputs : Called("fit", X, SkewedChi2Sampler_fit(self, X))

SkewedChi2SamplerTransform ==
    /\ cls = "SkewedChi2Sampler"
    /\ \E X \in Inputs : Called("transform", X, SkewedChi2Sampler_transform(self, X))

AdditiveChi2SamplerFit ==
    /\ cls = "AdditiveChi2Sampler"
    /\ \E X \in FitInputs : Called("fit", X, AdditiveChi2Sampler_fit(self, X))

AdditiveChi2SamplerTransform ==
    /\ cls = "AdditiveChi2Sampler"
    /\ \E X \in Inputs : Called("transform", X, AdditiveChi2Sampler_transform(self, X))

Next ==
    \/ RBFSamplerFit
    \/ RBFSamplerTransform
    \/ SkewedChi2SamplerFit
    \/ SkewedChi2SamplerTransform
    \/ AdditiveChi2SamplerFit
    \/ AdditiveChi2SamplerTransform

Spec == Init /\ [][Next]_vars

(* ------------------------------ properties ---------------------------- *)

Additive == cls = "AdditiveChi2Sampler"

Fitted == HasAttr(self, "random_weights_")

\* every row of A.data has A.shape[2] entries and there are A.shape[1] rows
WellShaped(A) ==
    /\ Len(A.shape) = 2
    /\ Len(A.data) = A.shape[1]
    /\ \A i \in 1..A.shape[1] : Len(A.data[i]) = A.shape[2]

\* C1: AdditiveChi2 fit with sample_interval unset sets it to 0.8, 0.5 or 0.4
\* for sample_steps 1, 2 or 3 and succeeds; for every other sample_steps it
\* fails with the configuration error and sample_interval stays unset.
C1_FitDerivesInterval ==
    [][(Additive /\ call'.op = "fit" /\ self.sample_interval = None) =>
          IF self.sample_steps \in {1, 2, 3}
          THEN /\ ret'.raised = NoException
               /\ self'.sample_interval =
                      CASE self.sample_steps = 1 -> "0.8"
                        [] self.sample_steps = 2 -> "0.5"
                        [] self.sample_steps = 3 -> "0.4"
          ELSE /\ ret'.raised = NeedInterval
               /\ self'.sample_interval = None]_vars

C1_Witness ==
    /\ Additive
    /\ call.op = "fit"
    /\ self.sample_steps = 4
    /\ ret.raised = NeedInterval
    /\ self.sample_interval = None

\* C2: no call changes a sample_interval that is set, and fit on an object
\* whose sample_interval is set succeeds whatever sample_steps is.
C2_SetIntervalKept ==
    [][(Additive /\ self.sample_interval # None) =>
          /\ self'.sample_interval = self.sample_interval
          /\ call'.op = "fit" => ret'.raised = NoException]_vars

C2_Witness ==
    /\ Additive
    /\ call.op = "fit"
    /\ self.sample_steps = 4
    /\ init_args.sample_interval = "0.3"
    /\ ret.raised = NoException
    /\ self.sample_interval = "0.3"

C4_NegativeRejected ==
    [][(cls = "SkewedChi2Sampler" /\ call'.op = "transform" /\ Fitted) =>
          /\ ret'.raised = SmallerThanZero <=> any_less(call'.X, 0)
          /\ ret'.raised = SmallerThanZero =>
                 /\ ret'.returned = "nothing"
                 /\ ret'.value = EmptyArray
                 /\ self' = self]_vars

C4_Witness ==
    /\ cls = "SkewedChi2Sampler"
    /\ Fitted
    /\ call.op = "transform"
    /\ call.X.shape[2] = fit_n_features
    /\ any_less(call.X, 0)
    /\ ret.raised = SmallerThanZero

\* C5: AdditiveChi2 transform raises the invalid-input error exactly when X
\* has an entry that is zero or negative, and then returns nothing.
C5_NonPositiveRejected ==
    (Additive /\ call.op = "transform") =>
        /\ ret.raised = StrictlyPositive <=> any_less_equal(call.X, 0)
        /\ ret.raised = StrictlyPositive =>
               /\ ret.returned = "nothing"
               /\ ret.value = EmptyArray

C5_Witness ==
    /\ Additive
    /\ call.op = "transform"
    /\ any_less_equal(call.X, 0)
    /\ ~any_less(call.X, 0)
    /\ self.sample_interval # None
    /\ ret.raised = StrictlyPositive

\* C6 as claimed: transform on a Monte Carlo map that holds no fitted
\* attributes raises the not-fitted error for every input.
C6_Original ==
    (cls \in MonteCarlo /\ call.op = "transform" /\ ~Fitted) =>
        ret.raised = AttributeError

\* C6 as amended: transform on a Monte Carlo map that holds no fitted
\* attributes always fails, with the not-fitted error except that SkewedChi2
\* raises the invalid-input error when X has an entry below zero; transform
\* returns an array only on a fitted object.
C6_UnfittedFails ==
    (cls \in MonteCarlo /\ call.op = "transform") =>
        /\ ~Fitted =>
               ret.raised = IF cls = "SkewedChi2Sampler" /\ any_less(call.X, 0)
                            THEN SmallerThanZero ELSE AttributeError
        /\ ret.returned = "ndarray" => Fitted

C6_Witness ==
    /\ cls = "SkewedChi2Sampler"
    /\ call.op = "transform"
    /\ ~Fitted
    /\ any_less(call.X, 0)
    /\ ret.raised = SmallerThanZero

\* the object a first fit(X) gives on a newly constructed object
FreshFit(X) == RBFSampler_fit(init_args, X).self

\* C7: on an RBF map constructed with an integer seed, every successful
\* fit(X) leaves the random_weights_ and random_offset_ that fit(X) gives on a
\* newly constructed object with the same arguments, and transform(X) then
\* returns the same array.
C7_Deterministic ==
    (/\ cls = "RBFSampler"
     /\ init_args.random_state.kind = "int"
     /\ call.op = "fit"
     /\ ret.raised = NoException) =>
        /\ self.random_weights_ = FreshFit(call.X).random_weights_
        /\ self.random_offset_ = FreshFit(call.X).random_offset_
        /\ RBFSampler_transform(self, call.X).value
               = RBFSampler_transform(FreshFit(call.X), call.X).value

\* component number c (from 0) of the expansion of the entry x: the zeroth
\* component, then the cosine and the sine of step 1, of step 2, ...
Component(c, x) ==
    IF c = 0 THEN <<"sqrt(x*interval/cosh(0))", x, self.sample_interval>>
    ELSE IF c % 2 = 1
         THEN <<"factor*cos(j*log_step)", (c + 1) \div 2, x, self.sample_interval>>
         ELSE <<"factor*sin(j*log_step)", c \div 2, x, self.sample_interval>>

Expanded ==
    Additive /\ call.op = "transform" /\ ret.returned = "ndarray" /\ self.sample_steps >= 1

\* C8 as claimed: the output row is the concatenation of the per-feature
\* expansions: column f * (2 * sample_steps - 1) + c holds component c of
\* input feature f.
C8_Original ==
    Expanded =>
        LET width == 2 * self.sample_steps - 1
        IN  \A i \in 1..call.X.shape[1] : \A f \in 0..(call.X.shape[2] - 1) :
                \A c \in 0..(width - 1) :
                    ret.value.data[i][f * width + c + 1]
                        = Component(c, call.X.data[i][f + 1])

\* C8 as amended: the output row is the concatenation of the components,
\* each n_features wide and in input feature order: column
\* c * n_features + f holds component c of input feature f.
C8_ComponentBlocks ==
    Expanded =>
        LET width == 2 * self.sample_steps - 1
            n_features == call.X.shape[2]
        IN  /\ ret.value.shape[2] = n_features * width
            /\ \A i \in 1..call.X.shape[1] : \A f \in 0..(n_features - 1) :
                   \A c \in 0..(width - 1) :
                       ret.value.data[i][c * n_features + f + 1]
                           = Component(c, call.X.data[i][f + 1])

C8_Witness ==
    /\ Expanded
    /\ self.sample_steps = 3
    /\ call.X.shape = <<2, 2>>
    /\ call.X.data[1][1] # call.X.data[1][2]

\* C9: on a Monte Carlo map the fitted attributes are those of the most
\* recent successful fit: random_weights_ is (columns of that fit's input) x
\* n_components and random_offset_ has n_components entries; transform of an
\* otherwise valid input succeeds exactly when its column count is that of
\* the most recent fit, and fails with the shape mismatch otherwise.
C9_LastFitDecides ==
    cls \in MonteCarlo =>
        /\ Fitted <=> fit_n_features > 0
        /\ Fitted =>
               /\ self.random_weights_.shape = <<fit_n_features, self.n_components>>
               /\ WellShaped(self.random_weights_)
               /\ self.random_offset_.shape = <<self.n_components>>
               /\ Len(self.random_offset_.data) = self.n_components
        /\ (/\ call.op = "transform"
            /\ Fitted
            /\ cls = "SkewedChi2Sampler" => ~any_less(call.X, 0)) =>
               IF call.X.shape[2] = fit_n_features
               THEN /\ ret.returned = "ndarray"
                    /\ ret.value.shape = <<call.X.shape[1], self.n_components>>
               ELSE ret.raised = NotAligned

\* a transform that fails on the shape after at least two fits
C9_Witness ==
    /\ cls = "RBFSampler"
    /\ call.op = "transform"
    /\ fit_n_features = 2
    /\ call.X.shape[2] = 1
    /\ ret.raised = NotAligned
    /\ init_args.random_state.kind = "int"
    /\ \A X \in FitInputs : self.random_state # RBFSampler_fit(init_args, X).self.random_state

\* C10: no call changes an attribute the constructor was given (an integer
\* random_state included), except that AdditiveChi2 fit may set a
\* sample_interval that was None.
C10_ConfigImmutable ==
    \A a \in DOMAIN init_args :
        \/ a = "sample_interval" /\ init_args[a] = None
        \/ a = "random_state" /\ init_args[a].kind # "int"
        \/ self[a] = init_args[a]

====
